---- MODULE Spec2Model ----
(***************************************************************************)
(* Verification model of three subsystems of the fyne toolkit:            *)
(*   - app/preferences.go : the debounced JSON preferences store          *)
(*   - theme/color.go     : the theme colour accessors                    *)
(*   - layout/formlayout.go : the two-column form layout                  *)
(* Each subsystem has its own specification (SpecPrefs, SpecRoundTrip,    *)
(* SpecTheme, SpecLayout) over the shared variable list; the variables of *)
(* the other subsystems stay at their initial values.                     *)
(***************************************************************************)
EXTENDS Integers, Sequences, FiniteSets, Bags, TLC

VARIABLES
    \* ---- preferences store (app/preferences.go) ----
    values,              \* InMemoryPreferences' map: key -> Go value (or Absent)
    file,                \* the backing file: [st, doc]
    dirExists,           \* the parent directory of the backing file exists
    loadingInProgress,   \* preferences.loadingInProgress
    suspendChange,       \* preferences.suspendChange
    numSuspendedChanges, \* preferences.numSuspendedChanges
    gor,                 \* bag of running goroutines: [k, pc, cause, err]
    loadErr,             \* return value of the last loadFromFile that returned
    \* ---- history variables of the preferences store ----
    hist,                \* record of counters, see HistInit
    \* ---- save/load round trip (app/preferences.go) ----
    rt,                  \* record: position, the map before the save, load's error
    \* ---- theme (theme/color.go) ----
    th,                  \* record: active theme, variant, last accessor call
    \* ---- form layout (layout/formlayout.go) ----
    ly                   \* record: objects, padding, last call and its result

vars == <<values, file, dirExists, loadingInProgress, suspendChange,
          numSuspendedChanges, gor, loadErr, hist, rt, th, ly>>

prefVars == <<values, file, dirExists, loadingInProgress, suspendChange,
              numSuspendedChanges, gor, loadErr, hist>>

(***************************************************************************)
(* Bounds of the model                                                     *)
(***************************************************************************)
MaxChanges == 2   \* mutations (Set calls) in one behaviour
MaxLoads == 1     \* load() calls in one behaviour
MaxConc == 2      \* caller goroutines (Set / load) in flight at once

(***************************************************************************)
(* Go values held in map[string]interface{} and their JSON encodings       *)
(***************************************************************************)
Keys == {"k1", "k2"}

Absent == [t |-> "absent", n |-> 0, s |-> <<>>]
IntV(n) == [t |-> "int", n |-> n, s |-> <<>>]
Float64V(n) == [t |-> "float64", n |-> n, s |-> <<>>]
BoolV(n) == [t |-> "bool", n |-> n, s |-> <<>>]
StringV(s) == [t |-> "string", n |-> 0, s |-> s]

\* Code units of the modelled strings: an ASCII letter, a byte that is not
\* valid UTF-8, and the replacement character U+FFFD.
CharA == "a"
BadByte == "xFF"
RuneError == "uFFFD"

EmptyMap == [k \in Keys |-> Absent]

\* JSON documents: key -> JSON value (or Absent).
JNum(n) == [t |-> "jnumber", n |-> n, s |-> <<>>]
JBool(n) == [t |-> "jbool", n |-> n, s |-> <<>>]
JString(s) == [t |-> "jstring", n |-> 0, s |-> s]

\* encoding/json writes invalid UTF-8 bytes of a string as U+FFFD.
CoerceUTF8(s) == [i \in DOMAIN s |-> IF s[i] = BadByte THEN RuneError ELSE s[i]]

EncodeValue(x) ==
    CASE x.t = "int" -> JNum(x.n)
      [] x.t = "float64" -> JNum(x.n)
      [] x.t = "bool" -> JBool(x.n)
      [] x.t = "string" -> JString(CoerceUTF8(x.s))
      [] OTHER -> Absent

\* Decoding into interface{}: every JSON number becomes a float64.
DecodeValue(j) ==
    CASE j.t = "jnumber" -> Float64V(j.n)
      [] j.t = "jbool" -> BoolV(j.n)
      [] j.t = "jstring" -> StringV(j.s)
      [] OTHER -> Absent

\* encode.Encode(&values): the whole map as one JSON object.
Encode(m) == [k \in Keys |-> EncodeValue(m[k])]

\* DecodeInto that decodes into a fresh map and drops it.
DecodeIntoFresh(m, doc) == m

\* decode.Decode(&values) into the existing, non-nil map: keys of the
\* document are set, the other entries of the map are kept.
DecodeInto(m, doc) ==
    [k \in Keys |-> IF doc[k] = Absent THEN m[k] ELSE DecodeValue(doc[k])]

NoDoc == [k \in Keys |-> Absent]
NoFile == [st |-> "none", doc |-> NoDoc]
TruncatedFile == [st |-> "empty", doc |-> NoDoc]
JsonFile(doc) == [st |-> "json", doc |-> doc]

(***************************************************************************)
(* The variables of a subsystem while another subsystem is checked         *)
(***************************************************************************)
\* A nil color.Color, and the package's fallbackColor.
NilColor == <<"nil", "nil">>
fallbackColor == <<"fallback", "fallback">>

\* A widget without a theme override.
NoOverride == {<<"none", "none">>}

RtIdle == [pc |-> "idle", m |-> EmptyMap, err |-> "none"]

ThIdle ==
    [cur |-> {}, variant |-> "dark", acc |-> "none", name |-> "none",
     override |-> NoOverride, res |-> NilColor]

NewSize(w, h) == [w |-> w, h |-> h]
NewPos(x, y) == [x |-> x, y |-> y]

LyIdle ==
    [objs |-> <<>>, before |-> <<>>, padding |-> 0, innerPadding |-> 0,
     op |-> "none", width |-> 0, res |-> NewSize(0, 0), panic |-> FALSE]

(***************************************************************************)
(* Preferences store: goroutines                                           *)
(***************************************************************************)
\* A goroutine: k is what started it ("set": a caller mutating the map,
\* "load": a caller in loadFromFile, "reset": the task of resetSuspend),
\* pc its position, cause the origin of the notification it delivers
\* ("user" or "load"), err the error loadFromFile will return.
G(k, pc, cause, err) == [k |-> k, pc |-> pc, cause |-> cause, err |-> err]

One(g) == SetToBag({g})
Spawn(bag, g) == bag (+) One(g)
Remove(bag, g) == bag (-) One(g)

\* Caller goroutines (Set or load) that have not returned yet.
Active ==
    LET callers == {g \in BagToSet(gor) : g.k \in {"set", "load"}}
        RECURSIVE Sum(_)
        Sum(S) == IF S = {} THEN 0
                  ELSE LET g == CHOOSE x \in S : TRUE
                       IN CopiesIn(g, gor) + Sum(S \ {g})
    IN Sum(callers)

\* Goroutines at position pc, whatever started them.
AtPc(bag, pc) ==
    LET S == {g \in BagToSet(bag) : g.pc = pc}
        RECURSIVE Sum(_)
        Sum(T) == IF T = {} THEN 0
                  ELSE LET g == CHOOSE x \in T : TRUE
                       IN CopiesIn(g, bag) + Sum(T \ {g})
    IN Sum(S)

\* Save attempts not settled yet: calls of saveToFile past line 58 that have
\* not returned, and reset tasks that have not passed their sleep.
Unsettled(bag) ==
    AtPc(bag, "s_mkdir") + AtPc(bag, "s_create") + AtPc(bag, "s_encode")
        + AtPc(bag, "sleep")

\* The change listener returns in goroutine g: loadFromFile goes on after
\* WriteValues, any other goroutine ends.
ListenerReturns(bag, g) ==
    IF g.k = "load"
    THEN Spawn(Remove(bag, g), G("load", "l_clear", g.cause, g.err))
    ELSE Remove(bag, g)

\* SaveReturns without the deferred resetSuspend.
SaveReturnsNoReset(bag, g) == ListenerReturns(bag, g)

\* saveToFile returns in goroutine g: the deferred resetSuspend starts the
\* reset task, then the listener returns.
SaveReturns(bag, g) ==
    Spawn(ListenerReturns(bag, g), G("reset", "sleep", "user", "nil"))

HistInit ==
    [changes |-> 0, loads |-> 0, savesSinceReset |-> 0, writes |-> 0,
     loadSave |-> FALSE, ioFailed |-> FALSE, suspendedUser |-> 0,
     burst |-> "none", burstN |-> 0]

(***************************************************************************)
(* Preferences store: operations                                           *)
(***************************************************************************)
\* The mutations the callers make: <<key, new value>>, Absent for RemoveValue.
Mutations ==
    {<<"k1", IntV(2)>>, <<"k2", IntV(1)>>, <<"k1", Absent>>}

\* InMemoryPreferences' setters and RemoveValue: the map is mutated, then the
\* change listeners are called in the caller's goroutine before it returns.
SetValue(key, v) ==
    /\ hist.changes < MaxChanges
    /\ Active < MaxConc
    /\ values' = [values EXCEPT ![key] = v]
    /\ gor' = Spawn(gor, G("set", "check", "user", "nil"))
    /\ hist' = [hist EXCEPT !.changes = @ + 1]
    /\ UNCHANGED <<rt, th, ly, file, dirExists, loadingInProgress, suspendChange,
                   numSuspendedChanges, loadErr>>

\* History of the burst of changes: the first change arrives with no guard
\* set, the others while suspendChange is set and before the reset task
\* has cleared it; anything else breaks the burst.
BurstAfterChange(h, ignore) ==
    CASE h.burst = "none" /\ ~ignore ->
            [h EXCEPT !.burst = "open", !.burstN = 1]
      [] h.burst = "open" /\ suspendChange /\ ~loadingInProgress ->
            [h EXCEPT !.burstN = @ + 1]
      [] OTHER -> [h EXCEPT !.burst = "broken"]

\* ListenerCount that counts under either guard.
ListenerCountEither(n, suspended, loading) ==
    IF suspended \/ loading THEN n + 1 ELSE n

\* The change listener registered by newPreferences, up to its return or
\* its call of save(): the guards are read and the counter is updated
\* under prefLock.
ListenerCount(n, suspended, loading) == IF suspended THEN n + 1 ELSE n

Listener(g) ==
    /\ g.pc = "check"
    /\ LET shouldIgnoreChange == suspendChange \/ loadingInProgress
           h1 == IF g.k = "set" THEN BurstAfterChange(hist, shouldIgnoreChange)
                 ELSE hist
       IN /\ numSuspendedChanges' =
                ListenerCount(numSuspendedChanges, suspendChange, loadingInProgress)
          /\ hist' = [h1 EXCEPT !.suspendedUser =
                         IF suspendChange /\ g.cause = "user" THEN @ + 1 ELSE @]
          /\ gor' = IF shouldIgnoreChange
                    THEN ListenerReturns(gor, g)
                    ELSE Spawn(Remove(gor, g), G(g.k, "save", g.cause, g.err))
    /\ UNCHANGED <<rt, th, ly, values, file, dirExists, loadingInProgress, suspendChange,
                   loadErr>>

\* saveToFile, lines 56-58: the suspend guard is set under prefLock.
SaveBegin(g) ==
    /\ g.pc = "save"
    /\ suspendChange' = TRUE
    /\ hist' = [hist EXCEPT !.savesSinceReset = @ + 1,
                            !.loadSave = @ \/ (g.cause = "load")]
    /\ gor' = Spawn(Remove(gor, g), G(g.k, "s_mkdir", g.cause, g.err))
    /\ UNCHANGED <<rt, th, ly, values, file, dirExists, loadingInProgress,
                   numSuspendedChanges, loadErr>>

\* saveToFile, lines 60-63: os.MkdirAll; it cannot fail on an existing
\* directory.
SaveMkdir(g) ==
    /\ g.pc = "s_mkdir"
    /\ \/ /\ dirExists' = TRUE
          /\ gor' = Spawn(Remove(gor, g), G(g.k, "s_create", g.cause, g.err))
          /\ UNCHANGED hist
       \/ /\ ~dirExists
          /\ gor' = SaveReturns(gor, g)
          /\ hist' = [hist EXCEPT !.ioFailed = TRUE]
          /\ UNCHANGED dirExists
    /\ UNCHANGED <<rt, th, ly, values, file, loadingInProgress, suspendChange,
                   numSuspendedChanges, loadErr>>

\* saveToFile, lines 65-74: os.Create truncates the file, or fails.
SaveCreate(g) ==
    /\ g.pc = "s_create"
    /\ \/ /\ file' = TruncatedFile
          /\ gor' = Spawn(Remove(gor, g), G(g.k, "s_encode", g.cause, g.err))
          /\ UNCHANGED hist
       \/ /\ gor' = SaveReturns(gor, g)
          /\ hist' = [hist EXCEPT !.ioFailed = TRUE]
          /\ UNCHANGED file
    /\ UNCHANGED <<rt, th, ly, values, dirExists, loadingInProgress, suspendChange,
                   numSuspendedChanges, loadErr>>

\* What saveToFile writes: the map as read under ReadValues.
Written(m) == JsonFile(Encode(m))

\* saveToFile, lines 76-87: the map is encoded into the file and the file
\* is synced; on an encode error nothing is written, on a sync error the
\* document is. The deferred resetSuspend runs on return.
\* Of two saves writing at once the later encode is what the file holds.
SaveEncode(g) ==
    /\ g.pc = "s_encode"
    /\ \/ /\ file' = Written(values)
          /\ hist' = [hist EXCEPT !.writes = @ + 1]
       \/ /\ file' \in {file, Written(values)}
          /\ hist' = [hist EXCEPT !.ioFailed = TRUE]
    /\ gor' = SaveReturns(gor, g)
    /\ UNCHANGED <<rt, th, ly, values, dirExists, loadingInProgress, suspendChange,
                   numSuspendedChanges, loadErr>>

\* The cause of the synthetic notification of the reset task: "load" when
\* every suspended change it stands for came from a load.
SyntheticCause(h) == IF h.suspendedUser > 0 THEN "user" ELSE "load"

\* ResetFires with the first suspended change not counted.
ResetFiresAfterTwo(changes) == changes > 1

\* resetSuspend, lines 39-47, after the sleep: the guard and the counter
\* are reset under prefLock; FireChange follows when changes were counted.
\* The sleep of 100 ms is a delay of any length relative to the other
\* goroutines.
ResetFires(changes) == changes > 0

ResetSuspend(g) ==
    /\ g.k = "reset" /\ g.pc = "sleep"
    /\ suspendChange' = FALSE
    /\ numSuspendedChanges' = 0
    /\ hist' = [hist EXCEPT !.savesSinceReset = 0, !.suspendedUser = 0,
                            !.burst = IF @ = "open" THEN "closed" ELSE @]
    /\ gor' = IF ResetFires(numSuspendedChanges)
              THEN Spawn(Remove(gor, g),
                         G("reset", "check", SyntheticCause(hist), "nil"))
              ELSE Remove(gor, g)
    /\ UNCHANGED <<rt, th, ly, values, file, dirExists, loadingInProgress, loadErr>>

\* loadFromFile, line 97: os.Open.
LoadOpen ==
    /\ hist.loads < MaxLoads
    /\ Active < MaxConc
    /\ hist' = [hist EXCEPT !.loads = @ + 1]
    /\ gor' = Spawn(gor, G("load", IF file.st = "none" THEN "l_mkdir" ELSE "l_lock",
                           "load", "nil"))
    /\ UNCHANGED <<rt, th, ly, values, file, dirExists, loadingInProgress, suspendChange,
                   numSuspendedChanges, loadErr>>

\* LoadMissing that returns nil whatever MkdirAll returned.
LoadMissingSwallowsError(g) ==
    /\ g.pc = "l_mkdir"
    /\ \/ dirExists' = TRUE
       \/ ~dirExists /\ UNCHANGED dirExists
    /\ loadErr' = "nil"
    /\ gor' = Remove(gor, g)
    /\ UNCHANGED <<rt, th, ly, values, file, loadingInProgress, suspendChange,
                   numSuspendedChanges, hist>>

\* loadFromFile, lines 99-104: the file does not exist; the parent
\* directory is created and nil returned, or MkdirAll's error is.
LoadMissing(g) ==
    /\ g.pc = "l_mkdir"
    /\ \/ dirExists' = TRUE /\ loadErr' = "nil"
       \/ ~dirExists /\ loadErr' = "error" /\ UNCHANGED dirExists
    /\ gor' = Remove(gor, g)
    /\ UNCHANGED <<rt, th, ly, values, file, loadingInProgress, suspendChange,
                   numSuspendedChanges, hist>>

\* loadFromFile, lines 114-116.
LoadLock(g) ==
    /\ g.pc = "l_lock"
    /\ loadingInProgress' = TRUE
    /\ gor' = Spawn(Remove(gor, g), G("load", "l_decode", "load", g.err))
    /\ UNCHANGED <<rt, th, ly, values, file, dirExists, suspendChange,
                   numSuspendedChanges, loadErr, hist>>

\* decode.Decode(&values) on the opened file: the map afterwards and the
\* error; an empty (truncated) file is an EOF error and leaves the map alone.
Decoded(m, f) ==
    IF f.st = "json"
    THEN [values |-> DecodeInto(m, f.doc), err |-> "nil"]
    ELSE [values |-> m, err |-> "error"]

\* loadFromFile, lines 118-120: WriteValues decodes the file into the map
\* (a truncated file is an EOF error and leaves the map alone), then the
\* change listeners are called.
LoadDecode(g) ==
    /\ g.pc = "l_decode"
    /\ values' = Decoded(values, file).values
    /\ gor' = Spawn(Remove(gor, g),
                    G("load", "check", "load", Decoded(values, file).err))
    /\ UNCHANGED <<rt, th, ly, file, dirExists, loadingInProgress, suspendChange,
                   numSuspendedChanges, loadErr, hist>>

\* loadFromFile, lines 122-126.
LoadUnlock(g) ==
    /\ g.pc = "l_clear"
    /\ loadingInProgress' = FALSE
    /\ loadErr' = g.err
    /\ gor' = Remove(gor, g)
    /\ UNCHANGED <<rt, th, ly, values, file, dirExists, suspendChange,
                   numSuspendedChanges, hist>>

\* The backing file before the first load: absent, or a document written by
\* an earlier run.
InitFiles == {NoFile, Written([EmptyMap EXCEPT !["k1"] = IntV(1)])}

\* newPreferences: an empty map, no guard set, no goroutine running.
PrefsInit ==
    /\ values = EmptyMap
    /\ file \in InitFiles
    /\ dirExists \in BOOLEAN
    /\ (file.st # "none" => dirExists)
    /\ loadingInProgress = FALSE
    /\ suspendChange = FALSE
    /\ numSuspendedChanges = 0
    /\ gor = EmptyBag
    /\ loadErr = "none"
    /\ hist = HistInit
    /\ rt = RtIdle
    /\ th = ThIdle
    /\ ly = LyIdle

PrefsNext ==
    \/ \E m \in Mutations : SetValue(m[1], m[2])
    \/ \E g \in BagToSet(gor) : Listener(g)
    \/ \E g \in BagToSet(gor) : SaveBegin(g)
    \/ \E g \in BagToSet(gor) : SaveMkdir(g)
    \/ \E g \in BagToSet(gor) : SaveCreate(g)
    \/ \E g \in BagToSet(gor) : SaveEncode(g)
    \/ \E g \in BagToSet(gor) : ResetSuspend(g)
    \/ LoadOpen
    \/ \E g \in BagToSet(gor) : LoadMissing(g)
    \/ \E g \in BagToSet(gor) : LoadLock(g)
    \/ \E g \in BagToSet(gor) : LoadDecode(g)
    \/ \E g \in BagToSet(gor) : LoadUnlock(g)

SpecPrefs == PrefsInit /\ [][PrefsNext]_vars

\* The steps of the goroutines that are running: the scheduler runs every
\* runnable goroutine, prefLock is held briefly and never across I/O, the
\* file operations return and the sleep of the reset task ends. Callers are
\* free never to mutate the map or to load.
PrefsFairness ==
    /\ WF_vars(\E g \in BagToSet(gor) : Listener(g))
    /\ WF_vars(\E g \in BagToSet(gor) : SaveBegin(g))
    /\ WF_vars(\E g \in BagToSet(gor) : SaveMkdir(g))
    /\ WF_vars(\E g \in BagToSet(gor) : SaveCreate(g))
    /\ WF_vars(\E g \in BagToSet(gor) : SaveEncode(g))
    /\ WF_vars(\E g \in BagToSet(gor) : ResetSuspend(g))
    /\ WF_vars(\E g \in BagToSet(gor) : LoadMissing(g))
    /\ WF_vars(\E g \in BagToSet(gor) : LoadLock(g))
    /\ WF_vars(\E g \in BagToSet(gor) : LoadDecode(g))
    /\ WF_vars(\E g \in BagToSet(gor) : LoadUnlock(g))

SpecPrefsFair == PrefsInit /\ [][PrefsNext]_vars /\ PrefsFairness

(***************************************************************************)
(* Preferences store: claims                                               *)
(***************************************************************************)
\* No goroutine is running: every notification has been handled and every
\* reset task has ended.
Quiescent == gor = EmptyBag

\* C1: at most one save is started per suspend window: between two starts
\* of saveToFile the reset task has cleared suspendChange.
C1_OneSavePerWindow == hist.savesSinceReset <= 1

\* A burst as C2 describes it has been handled completely: the first change
\* met no guard, the others met suspendChange before the reset task cleared
\* it, no load ran, no file operation failed, nothing is pending.
BurstHandled ==
    /\ Quiescent
    /\ hist.burst = "closed"
    /\ hist.loads = 0
    /\ ~hist.ioFailed

\* C2 as claimed: N changes within one debounce window cause exactly one
\* file write in total.
C2_ExactlyOneWrite == BurstHandled => hist.writes = 1

\* C2 amended: one change causes one write; N >= 2 changes within one
\* window cause exactly two: the save of the first change and the save of
\* the reset task's synthetic notification.
C2_BurstWrites ==
    BurstHandled => hist.writes = (IF hist.burstN = 1 THEN 1 ELSE 2)

C2_Witness == BurstHandled /\ hist.burstN = 2 /\ hist.writes = 2

\* C3: no save is started by a notification that a load fired, neither by
\* the load's own notification nor by a synthetic notification of the reset
\* task that stands only for notifications of loads.
C3_LoadNeverSaves == ~hist.loadSave

\* C4: once the mutations have stopped and everything pending has run, the
\* file holds the in-memory map (file operations having succeeded).
C4_EventuallyPersisted ==
    (Quiescent /\ hist.changes > 0 /\ ~hist.ioFailed) => file = Written(values)

\* The goroutine of a loadFromFile whose os.Open found no file.
MissingLoad == G("load", "l_mkdir", "load", "nil")
MissingLoadStarts == CopiesIn(MissingLoad, gor') > CopiesIn(MissingLoad, gor)
MissingLoadReturns == CopiesIn(MissingLoad, gor') < CopiesIn(MissingLoad, gor)

\* What a load of a missing file leaves alone: the guards, the counter, the
\* file, the map, and no notification or save is started.
MissingLoadFrame ==
    /\ loadingInProgress' = loadingInProgress
    /\ UNCHANGED <<suspendChange, numSuspendedChanges, file, values>>
    /\ hist'.writes = hist.writes /\ hist'.savesSinceReset = hist.savesSinceReset
    /\ \A g \in BagToSet(gor') \cup BagToSet(gor) :
          g # MissingLoad => CopiesIn(g, gor') = CopiesIn(g, gor)

\* C6 as claimed: a load of a missing file returns nil, the parent directory
\* exists afterwards, the map is empty, loadingInProgress is never set and
\* no notification or save is produced.
C6_MissingFileNoError ==
    [][/\ MissingLoadStarts => MissingLoadFrame
       /\ MissingLoadReturns =>
            /\ loadErr' = "nil" /\ dirExists' /\ values' = EmptyMap
            /\ MissingLoadFrame]_vars

\* C6 amended: a load of a missing file returns nil when MkdirAll succeeds,
\* and then the parent directory exists; it returns MkdirAll's error
\* otherwise; the map is left as it was (empty if it was empty); the guards
\* are not touched and no notification or save is produced.
C6_MissingFileLoad ==
    [][/\ MissingLoadStarts => MissingLoadFrame
       /\ MissingLoadReturns =>
            /\ loadErr' \in {"nil", "error"}
            /\ (loadErr' = "nil" => dirExists')
            /\ (loadErr' = "error" => ~dirExists /\ ~dirExists')
            /\ (values = EmptyMap => values' = EmptyMap)
            /\ MissingLoadFrame]_vars

C6_Witness ==
    /\ file.st = "none" /\ loadErr = "nil" /\ dirExists
    /\ values # EmptyMap /\ Quiescent

\* In this step a goroutine leaves position pc, or comes to it.
Leaves(pc) ==
    \E g \in BagToSet(gor) : g.pc = pc /\ CopiesIn(g, gor') < CopiesIn(g, gor)
Enters(pc) ==
    \E g \in BagToSet(gor') : g.pc = pc /\ CopiesIn(g, gor') > CopiesIn(g, gor)

\* A step in which the listener runs its guard check (lines 140-145), a step
\* in which it goes on to save(), and a step in which saveToFile is entered.
ListenerChecks == Leaves("check")
SaveStarted == Enters("save")
SaveEntered == Leaves("save")

\* The save the listener started sets suspendChange on entering saveToFile
\* and leaves the counter alone.
SaveSetsGuard == SaveEntered => (suspendChange' /\ UNCHANGED numSuspendedChanges)

\* C11 as claimed: a notification that arrives while loadingInProgress or
\* suspendChange is set starts no save and adds one to numSuspendedChanges;
\* with neither set a save is started, suspendChange becomes set and
\* numSuspendedChanges is left unchanged.
C11_EitherGuardCounts ==
    [][/\ ListenerChecks =>
            IF suspendChange \/ loadingInProgress
            THEN ~SaveStarted /\ numSuspendedChanges' = numSuspendedChanges + 1
            ELSE SaveStarted /\ UNCHANGED numSuspendedChanges
       /\ SaveSetsGuard]_vars

\* C11 amended: a notification that arrives while suspendChange is set
\* starts no save and adds one to numSuspendedChanges; one that arrives
\* while only loadingInProgress is set starts no save and leaves the counter
\* unchanged; with neither set a save is started, which sets suspendChange,
\* and the counter is left unchanged.
C11_GuardCheck ==
    [][/\ ListenerChecks =>
            CASE suspendChange ->
                    ~SaveStarted /\ numSuspendedChanges' = numSuspendedChanges + 1
              [] ~suspendChange /\ loadingInProgress ->
                    ~SaveStarted /\ UNCHANGED numSuspendedChanges
              [] OTHER ->
                    SaveStarted /\ UNCHANGED numSuspendedChanges
       /\ SaveSetsGuard]_vars

\* The listener has returned in a load that ran alone: loadingInProgress was
\* the only guard set, no save started and nothing was counted.
C11_Witness ==
    /\ CopiesIn(G("load", "l_clear", "load", "nil"), gor) = 1
    /\ loadingInProgress /\ ~suspendChange
    /\ numSuspendedChanges = 0
    /\ hist.changes = 0 /\ hist.savesSinceReset = 0

\* A step of saveToFile (lines 56-87), and the step of the reset task after
\* its sleep (lines 39-43).
SaveSteps == \E pc \in {"save", "s_mkdir", "s_create", "s_encode"} : Leaves(pc)
ResetSteps == Leaves("sleep")

\* What a step does to the guard, the counter and the map around a save:
\* no step of saveToFile changes the map; a save attempt stays unsettled
\* until a step of the reset task, which settles one attempt, clears
\* suspendChange and zeroes the counter at once; nothing else clears the
\* guard or lowers the counter; a notification that meets no guard after a
\* failed save starts a save.
SaveResetSteps ==
    /\ SaveSteps => UNCHANGED values
    /\ ResetSteps <=> Unsettled(gor') < Unsettled(gor)
    /\ ResetSteps =>
          /\ ~suspendChange' /\ numSuspendedChanges' = 0
          /\ Unsettled(gor') = Unsettled(gor) - 1
    /\ (suspendChange /\ ~suspendChange') => ResetSteps
    /\ numSuspendedChanges' < numSuspendedChanges => ResetSteps
    /\ (ListenerChecks /\ hist.ioFailed /\ ~suspendChange /\ ~loadingInProgress)
          => SaveStarted

\* Every save attempt has been settled by a reset task, the last of which
\* left the guard clear and the counter at zero.
Settled ==
    /\ Unsettled(gor) = 0
    /\ AtPc(gor, "save") = 0
    /\ ~suspendChange /\ numSuspendedChanges = 0

\* C12: every save attempt, successful or failed at MkdirAll, Create, Encode
\* or Sync, leaves the in-memory map unchanged and is eventually followed
\* by the reset task clearing suspendChange and zeroing numSuspendedChanges
\* in one step; the store never stays suspended forever, and a change that
\* arrives after a failed save has been reset is saved.
C12_SaveAlwaysReset ==
    /\ [][SaveResetSteps]_vars
    /\ (Unsettled(gor) + AtPc(gor, "save") > 0) ~> Settled
    /\ suspendChange ~> ~suspendChange

\* The only save so far failed and its reset task has cleared the guard and
\* the counter; the notification of a later change is at the guard check.
C12_Witness ==
    /\ hist.ioFailed /\ hist.writes = 0 /\ hist.loads = 0
    /\ Unsettled(gor) = 0 /\ AtPc(gor, "save") = 0
    /\ ~suspendChange /\ numSuspendedChanges = 0
    /\ gor = One(G("set", "check", "user", "nil"))
    /\ hist.changes = 2 /\ hist.burst = "closed"

(***************************************************************************)
(* Save/load round trip: saveToFile then loadFromFile, both successful and *)
(* run to completion by one caller, for every map of the bounded set.      *)
(***************************************************************************)
RoundTripVals ==
    {IntV(1), IntV(2), Float64V(1), BoolV(1), StringV(<<CharA>>),
     StringV(<<CharA, BadByte>>)}

RoundTripMaps == [Keys -> RoundTripVals \cup {Absent}]

RoundTripInit ==
    /\ values \in RoundTripMaps
    /\ file = NoFile
    /\ dirExists = FALSE
    /\ loadingInProgress = FALSE
    /\ suspendChange = FALSE
    /\ numSuspendedChanges = 0
    /\ gor = EmptyBag
    /\ loadErr = "none"
    /\ hist = HistInit
    /\ rt = [pc |-> "start", m |-> values, err |-> "none"]
    /\ th = ThIdle
    /\ ly = LyIdle

\* saveToFile(path) returning nil: the directory exists, the file holds the
\* encoded map, the suspend guard is set.
RoundTripSave ==
    /\ rt.pc = "start"
    /\ dirExists' = TRUE
    /\ file' = Written(values)
    /\ suspendChange' = TRUE
    /\ gor' = Spawn(gor, G("reset", "sleep", "user", "nil"))
    /\ rt' = [rt EXCEPT !.pc = "saved"]
    /\ UNCHANGED <<values, loadingInProgress, numSuspendedChanges,
                   loadErr, hist, th, ly>>

\* loadFromFile(path) run to its return: the listener, called under
\* loadingInProgress and suspendChange, counts the change and returns.
RoundTripLoad ==
    /\ rt.pc = "saved"
    /\ values' = Decoded(values, file).values
    /\ numSuspendedChanges' =
          ListenerCount(numSuspendedChanges, suspendChange, TRUE)
    /\ loadErr' = Decoded(values, file).err
    /\ rt' = [rt EXCEPT !.pc = "loaded", !.err = Decoded(values, file).err]
    /\ UNCHANGED <<file, dirExists, loadingInProgress, suspendChange, gor,
                   hist, th, ly>>

RoundTripNext == RoundTripSave \/ RoundTripLoad

SpecRoundTrip == RoundTripInit /\ [][RoundTripNext]_vars

\* C5 as claimed: after the save and the load the map equals the map M
\* before the save, values included, and the load returned no error.
C5_RoundTripIdentity ==
    rt.pc = "loaded" => (values = rt.m /\ rt.err = "nil")

\* What a Go value is after a JSON round trip into interface{}.
AfterRoundTrip(x) ==
    CASE x.t = "int" -> Float64V(x.n)
      [] x.t = "string" -> StringV([i \in DOMAIN x.s |->
                                     IF x.s[i] = BadByte THEN RuneError ELSE x.s[i]])
      [] OTHER -> x

\* C5 amended: after the save and the load the map has the keys of M and
\* the load returned no error; bool, float64 and valid UTF-8 string values
\* are the values of M, an int value n is the float64 n, and a string holds
\* U+FFFD for each invalid UTF-8 byte.
C5_RoundTripUpToJSON ==
    rt.pc = "loaded" =>
        /\ rt.err = "nil"
        /\ \A k \in Keys : values[k] = AfterRoundTrip(rt.m[k])
        /\ \A k \in Keys : (values[k] = Absent) <=> (rt.m[k] = Absent)

C5_Witness ==
    /\ rt.pc = "loaded"
    /\ rt.m["k1"] = IntV(2) /\ values["k1"] = Float64V(2)
    /\ rt.m["k2"] = StringV(<<CharA>>) /\ values["k2"] = rt.m["k2"]

(***************************************************************************)
(* Theme colour accessors (theme/color.go)                                 *)
(***************************************************************************)
Variants == {"dark", "light"}

\* Accessors that go through safeColorLookup, with the colour name each
\* looks up (lines 227-445).
SafeAccessors ==
    [BackgroundColor |-> "background", ButtonColor |-> "button",
     DisabledButtonColor |-> "disabledButton", DisabledColor |-> "disabled",
     DisabledTextColor |-> "disabled", ErrorColor |-> "error",
     FocusColor |-> "focus", ForegroundColor |-> "foreground",
     HoverColor |-> "hover", HyperlinkColor |-> "hyperlink",
     MenuBackgroundColor |-> "menuBackground",
     OverlayBackgroundColor |-> "overlayBackground",
     PlaceHolderColor |-> "placeholder", PressedColor |-> "pressed",
     PrimaryColor |-> "primary", ScrollBarColor |-> "scrollBar",
     SelectionColor |-> "selection", SeparatorColor |-> "separator",
     ShadowColor |-> "shadow", SuccessColor |-> "success",
     WarningColor |-> "warning"]

\* Accessors that return Current().Color(...) as it is (lines 290-317).
DirectAccessors ==
    [HeaderBackgroundColor |-> "headerBackground",
     InputBackgroundColor |-> "inputBackground",
     InputBorderColor |-> "inputBorder"]

ColorNames ==
    {SafeAccessors[a] : a \in DOMAIN SafeAccessors}
        \cup {DirectAccessors[a] : a \in DOMAIN DirectAccessors}


\* A theme is given by the (name, variant) pairs its Color method returns
\* nil for; for the others it returns the entry of its colour table.
ThemeColor(theme, n, v) == IF <<n, v>> \in theme THEN NilColor ELSE <<n, v>>

Themes ==
    {{}} \cup {{<<n, v>>} : n \in ColorNames, v \in Variants}
         \cup {ColorNames \X Variants}

\* The theme overrides of the widgets of the model.
Overrides == {NoOverride, {}, ColorNames \X Variants}

\* CurrentForWidget: the widget's theme override if it has one, else the
\* current theme.
CurrentForWidget(cur, override) == IF override = NoOverride THEN cur ELSE override

safeColorLookup(cur, n, v) ==
    LET col == ThemeColor(cur, n, v)
    IN IF col = NilColor THEN fallbackColor ELSE col

\* The colour accessor `acc` of the package, called with colour name n
\* (used by Color and ColorForWidget only) and a widget with `override`.
Accessor(acc, n, cur, v, override) ==
    CASE acc \in DOMAIN SafeAccessors -> safeColorLookup(cur, SafeAccessors[acc], v)
      [] acc \in DOMAIN DirectAccessors -> ThemeColor(cur, DirectAccessors[acc], v)
      [] acc = "Color" -> safeColorLookup(cur, n, v)
      [] acc = "ColorForWidget" -> ThemeColor(CurrentForWidget(cur, override), n, v)

\* The colour name an accessor call looks up, and the theme it asks.
LookedUp(acc, n) ==
    CASE acc \in DOMAIN SafeAccessors -> SafeAccessors[acc]
      [] acc \in DOMAIN DirectAccessors -> DirectAccessors[acc]
      [] OTHER -> n

ThemeInit ==
    /\ values = EmptyMap
    /\ file = NoFile
    /\ dirExists = FALSE
    /\ loadingInProgress = FALSE
    /\ suspendChange = FALSE
    /\ numSuspendedChanges = 0
    /\ gor = EmptyBag
    /\ loadErr = "none"
    /\ hist = HistInit
    /\ rt = RtIdle
    /\ \E cur \in Themes, v \in Variants : th = [ThIdle EXCEPT !.cur = cur, !.variant = v]
    /\ ly = LyIdle

\* One call of a colour accessor under the current theme and variant.
CallAccessor(acc, n, override) ==
    /\ th' = [th EXCEPT !.acc = acc, !.name = LookedUp(acc, n),
                        !.override = override,
                        !.res = Accessor(acc, n, th.cur, th.variant, override)]
    /\ UNCHANGED <<prefVars, rt, ly>>

\* The application installs another theme, or the variant changes.
SetTheme(cur, v) ==
    /\ th' = [th EXCEPT !.cur = cur, !.variant = v]
    /\ UNCHANGED <<prefVars, rt, ly>>

ThemeNext ==
    \/ \E acc \in DOMAIN SafeAccessors \cup DOMAIN DirectAccessors :
          CallAccessor(acc, "none", NoOverride)
    \/ \E n \in ColorNames : CallAccessor("Color", n, NoOverride)
    \/ \E n \in ColorNames, o \in Overrides : CallAccessor("ColorForWidget", n, o)
    \/ \E cur \in Themes, v \in Variants : SetTheme(cur, v)

SpecTheme == ThemeInit /\ [][ThemeNext]_vars

\* C7: whatever accessor was called last, its result is the fallback colour
\* if the theme asked returned nil for the name and the variant, and the
\* theme's colour otherwise.
C7_NeverUndefined ==
    th.acc # "none" =>
        LET asked == IF th.acc = "ColorForWidget"
                     THEN CurrentForWidget(th.cur, th.override) ELSE th.cur
            col == ThemeColor(asked, th.name, th.variant)
        IN th.res = (IF col = NilColor THEN fallbackColor ELSE col)

(***************************************************************************)
(* Form layout (layout/formlayout.go)                                      *)
(***************************************************************************)
MaxObjs == 4   \* longest object list

formLayoutCols == 2

\* A canvas object: Visible(), MinSize(), whether it is a *canvas.Text, and
\* its position and size.
Object(visible, min, text) ==
    [visible |-> visible, min |-> min, text |-> text,
     pos |-> NewPos(100, 100), size |-> NewSize(1, 1)]

\* Minimum sizes of the objects of the model.
MinSizes == {NewSize(7, 10), NewSize(3, 20), NewSize(9, 30), NewSize(2, 5)}

Objects ==
    {Object(v, m, FALSE) : v \in BOOLEAN, m \in MinSizes}
        \cup {Object(v, NewSize(6, 12), TRUE) : v \in BOOLEAN}

ObjectLists == UNION {[1..n -> Objects] : n \in 0..MaxObjs}

\* theme.Padding() and theme.InnerPadding() of the themes of the model.
ThemeSizes == {<<4, 8>>, <<2, 3>>}

ContainerWidths == {0, 40}

\* objects[i], with Go's index from 0.
At(objects, i) == objects[i + 1]

Max(a, b) == IF a > b THEN a ELSE b

\* countRows: [panic, n]; indexing objects[i+1] past the end panics.
RECURSIVE countRowsFrom(_, _, _)
countRowsFrom(objects, i, count) ==
    IF i >= Len(objects) THEN [panic |-> FALSE, n |-> count]
    ELSE IF At(objects, i).visible
         THEN countRowsFrom(objects, i + formLayoutCols, count + 1)
         ELSE IF i + 1 >= Len(objects) THEN [panic |-> TRUE, n |-> count]
              ELSE IF At(objects, i + 1).visible
                   THEN countRowsFrom(objects, i + formLayoutCols, count + 1)
                   ELSE countRowsFrom(objects, i + formLayoutCols, count)

countRows(objects) == countRowsFrom(objects, 0, 0)

\* RowHeight with the label's height taken for the row's.
RowHeightOfLabel(labelCell, contentCell) == labelCell.h

\* Line 67: the height of a row from its two cells.
RowHeight(labelCell, contentCell) == Max(labelCell.h, contentCell.h)

\* Line 54: the row objects[lowBound:highBound] is skipped.
CellsSkip(label, content) == ~label.visible /\ ~content.visible

\* The loop of tableCellsSize (lines 50-75): [panic, label, content, table].
RECURSIVE tableCellsLoop(_, _, _, _, _, _, _, _)
tableCellsLoop(objects, rows, row, lowBound, label, content, table, innerPadding) ==
    IF row >= rows
    THEN [panic |-> FALSE, label |-> label, content |-> content, table |-> table]
    ELSE IF lowBound + formLayoutCols > Len(objects)
    THEN [panic |-> TRUE, label |-> label, content |-> content, table |-> table]
    ELSE LET l == At(objects, lowBound)
             c == At(objects, lowBound + 1)
             labelW == IF l.text THEN l.min.w + innerPadding * 2 ELSE l.min.w
             rowHeight == RowHeight(l.min, c.min)
         IN IF CellsSkip(l, c)
            THEN tableCellsLoop(objects, rows, row, lowBound + formLayoutCols,
                                label, content, table, innerPadding)
            ELSE tableCellsLoop(objects, rows, row + 1, lowBound + formLayoutCols,
                                Max(label, labelW), Max(content, c.min.w),
                                [table EXCEPT ![row + 1] =
                                    <<NewSize(labelW, rowHeight),
                                      NewSize(c.min.w, rowHeight)>>],
                                innerPadding)

\* tableCellsSize (lines 36-79).
tableCellsSize(objects, containerWidth, padding, innerPadding) ==
    LET rows == countRows(objects)
        table == [r \in 1..rows.n |-> <<NewSize(0, 0), NewSize(0, 0)>>]
    IN IF rows.panic
       THEN [panic |-> TRUE, label |-> 0, content |-> 0, table |-> <<>>]
       ELSE IF Len(objects) % formLayoutCols # 0
       THEN [panic |-> FALSE, label |-> 0, content |-> 0, table |-> table]
       ELSE LET t == tableCellsLoop(objects, rows.n, 0, 0, 0, 0, table, innerPadding)
            IN [t EXCEPT !.content = Max(t.content, containerWidth - t.label - padding)]

\* LayoutSkips without the visibility check.
LayoutNeverSkips(objects, i) == FALSE

\* Line 91: Layout skips the row starting at objects[i].
LayoutSkips(objects, i) ==
    /\ ~At(objects, i).visible
    /\ i + 1 < Len(objects)
    /\ ~At(objects, i + 1).visible

\* Lines 99-105: the label is moved and resized.
PlaceLabel(o, y, labelWidth, rowH, innerPadding) ==
    IF o.text
    THEN [o EXCEPT !.pos = NewPos(innerPadding, y + innerPadding),
                   !.size = NewSize(labelWidth - innerPadding * 2, o.min.h)]
    ELSE [o EXCEPT !.pos = NewPos(0, y), !.size = NewSize(labelWidth, rowH)]

\* PlaceContent with no padding between the two columns.
PlaceContentAtLabel(o, y, labelWidth, contentWidth, rowH, padding, innerPadding) ==
    IF o.text
    THEN [o EXCEPT !.pos = NewPos(labelWidth + innerPadding, y + innerPadding),
                   !.size = NewSize(contentWidth - innerPadding * 2, o.min.h)]
    ELSE [o EXCEPT !.pos = NewPos(labelWidth, y),
                   !.size = NewSize(contentWidth, rowH)]

\* Lines 108-114: the content is moved and resized.
PlaceContent(o, y, labelWidth, contentWidth, rowH, padding, innerPadding) ==
    IF o.text
    THEN [o EXCEPT !.pos = NewPos(padding + labelWidth + innerPadding, y + innerPadding),
                   !.size = NewSize(contentWidth - innerPadding * 2, o.min.h)]
    ELSE [o EXCEPT !.pos = NewPos(padding + labelWidth, y),
                   !.size = NewSize(contentWidth, rowH)]

\* The loop of Layout (lines 90-117): [panic, objects]; table[row] past
\* the end of the table panics.
RECURSIVE layoutLoop(_, _, _, _, _, _, _)
layoutLoop(objects, i, row, y, t, padding, innerPadding) ==
    IF i >= Len(objects) THEN [panic |-> FALSE, objects |-> objects]
    ELSE IF LayoutSkips(objects, i)
    THEN layoutLoop(objects, i + formLayoutCols, row, y, t, padding, innerPadding)
    ELSE IF row >= Len(t.table) THEN [panic |-> TRUE, objects |-> objects]
    ELSE LET y1 == IF row > 0 THEN y + t.table[row][1].h + padding ELSE y
             rowH == t.table[row + 1][1].h
             o1 == [objects EXCEPT ![i + 1] =
                       PlaceLabel(@, y1, t.label, rowH, innerPadding)]
             o2 == IF i + 1 < Len(objects)
                   THEN [o1 EXCEPT ![i + 2] =
                            PlaceContent(@, y1, t.label, t.content, rowH,
                                         padding, innerPadding)]
                   ELSE o1
         IN layoutLoop(o2, i + formLayoutCols, row + 1, y1, t, padding, innerPadding)

\* Layout (lines 82-118): [panic, objects].
Layout(objects, width, padding, innerPadding) ==
    LET t == tableCellsSize(objects, width, padding, innerPadding)
    IN IF t.panic THEN [panic |-> TRUE, objects |-> objects]
       ELSE layoutLoop(objects, 0, 0, 0, t, padding, innerPadding)

\* The loop of MinSize (lines 134-140): the height.
RECURSIVE minSizeHeight(_, _, _, _, _)
minSizeHeight(table, row, height, added, padding) ==
    IF row >= Len(table) THEN height
    ELSE minSizeHeight(table, row + 1,
                       height + table[row + 1][1].h + (IF added THEN padding ELSE 0),
                       TRUE, padding)

\* MinSize (lines 123-142): [panic, size].
MinSize(objects, padding, innerPadding) ==
    LET t == tableCellsSize(objects, 0, padding, innerPadding)
    IN IF t.panic THEN [panic |-> TRUE, size |-> NewSize(0, 0)]
       ELSE IF Len(t.table) = 0 THEN [panic |-> FALSE, size |-> NewSize(0, 0)]
       ELSE [panic |-> FALSE,
             size |-> NewSize(t.label + t.content + padding,
                              minSizeHeight(t.table, 0, 0, FALSE, padding))]

LayoutInit ==
    /\ values = EmptyMap
    /\ file = NoFile
    /\ dirExists = FALSE
    /\ loadingInProgress = FALSE
    /\ suspendChange = FALSE
    /\ numSuspendedChanges = 0
    /\ gor = EmptyBag
    /\ loadErr = "none"
    /\ hist = HistInit
    /\ rt = RtIdle
    /\ th = ThIdle
    /\ \E objects \in ObjectLists, sz \in ThemeSizes :
          ly = [LyIdle EXCEPT !.objs = objects, !.before = objects,
                              !.padding = sz[1], !.innerPadding = sz[2]]

\* A call of MinSize on the object list.
CallMinSize ==
    /\ ly.op = "none"
    /\ LET r == MinSize(ly.objs, ly.padding, ly.innerPadding)
       IN ly' = [ly EXCEPT !.op = "MinSize", !.res = r.size, !.panic = r.panic]
    /\ UNCHANGED <<prefVars, rt, th>>

\* A call of Layout on the object list with a container of width w.
CallLayout(w) ==
    /\ ly.op = "none"
    /\ LET r == Layout(ly.objs, w, ly.padding, ly.innerPadding)
       IN ly' = [ly EXCEPT !.op = "Layout", !.width = w, !.objs = r.objects,
                           !.panic = r.panic]
    /\ UNCHANGED <<prefVars, rt, th>>

LayoutNext == CallMinSize \/ \E w \in ContainerWidths : CallLayout(w)

SpecLayout == LayoutInit /\ [][LayoutNext]_vars

(***************************************************************************)
(* Form layout: claims                                                     *)
(***************************************************************************)
\* The example of C8: two visible rows whose (label, content) minimum
\* heights are (10, 20) and (30, 5).
IsHeightExample(objects) ==
    /\ Len(objects) = 4
    /\ \A i \in 1..4 : objects[i].visible /\ ~objects[i].text
    /\ objects[1].min.h = 10 /\ objects[2].min.h = 20
    /\ objects[3].min.h = 30 /\ objects[4].min.h = 5

\* C8 as claimed: MinSize of the example has the height 10+30+padding.
C8_HeightExampleAsClaimed ==
    (ly.op = "MinSize" /\ IsHeightExample(ly.before)) =>
        (~ly.panic /\ ly.res.h = 10 + 30 + ly.padding)

\* C8 amended: MinSize of the example has the height 20+30+padding: each
\* row is as high as the higher of its two cells, which is the row height
\* of tableCellsSize, and one padding lies between the two rows.
C8_HeightExample ==
    (ly.op = "MinSize" /\ IsHeightExample(ly.before)) =>
        LET t == tableCellsSize(ly.before, 0, ly.padding, ly.innerPadding)
        IN /\ ~ly.panic
           /\ ly.res.h = 20 + 30 + ly.padding
           /\ Len(t.table) = 2
           /\ t.table[1][1].h = 20 /\ t.table[2][1].h = 30
           /\ ly.res.h = t.table[1][1].h + t.table[2][1].h + ly.padding

C8_Witness ==
    /\ ly.op = "MinSize" /\ IsHeightExample(ly.before)
    /\ ly.padding = 4 /\ ly.res.h = 54

\* C9: for an object list of odd length MinSize returns (0, 0) and neither
\* MinSize nor Layout fails.
C9_OddLengthDegenerates ==
    (ly.op # "none" /\ Len(ly.before) % 2 = 1) =>
        /\ ~ly.panic
        /\ ly.op = "MinSize" => ly.res = NewSize(0, 0)

\* The rows of an even-length list without the rows whose label and
\* content are both invisible.
RECURSIVE DropHiddenFrom(_, _)
DropHiddenFrom(objects, i) ==
    IF i + 1 >= Len(objects) THEN <<>>
    ELSE (IF ~At(objects, i).visible /\ ~At(objects, i + 1).visible
          THEN <<>> ELSE <<At(objects, i), At(objects, i + 1)>>)
         \o DropHiddenFrom(objects, i + 2)

DropHidden(objects) == DropHiddenFrom(objects, 0)

\* The y of the k-th row (from 0) of a list d without hidden rows: the
\* heights of the rows above it and one padding after each of them.
RECURSIVE RowY(_, _, _)
RowY(d, k, padding) ==
    IF k = 0 THEN 0
    ELSE RowY(d, k - 1, padding)
            + Max(d[2 * k - 1].min.h, d[2 * k].min.h) + padding

\* C10: for an even-length list a row whose label and content are both
\* invisible adds nothing to MinSize, Layout leaves its two objects as they
\* were and places the other rows as if it were absent; a row with one
\* invisible cell is counted and placed.
C10_HiddenRowsExcluded ==
    (ly.op # "none" /\ Len(ly.before) % 2 = 0) =>
        LET d == DropHidden(ly.before)
            placed == DropHidden(ly.objs)
        IN /\ ~ly.panic
           /\ ly.op = "MinSize" =>
                ly.res = MinSize(d, ly.padding, ly.innerPadding).size
           /\ ly.op = "Layout" =>
                /\ \A i \in 1..Len(ly.before) :
                      LET j == IF i % 2 = 1 THEN i + 1 ELSE i - 1
                      IN (~ly.before[i].visible /\ ~ly.before[j].visible)
                            => ly.objs[i] = ly.before[i]
                /\ placed = Layout(d, ly.width, ly.padding, ly.innerPadding).objects
                /\ Len(placed) = Len(d)
                /\ \A i \in 1..Len(placed) :
                      placed[i].pos.y =
                          RowY(d, (i - 1) \div 2, ly.padding)
                              + (IF placed[i].text THEN ly.innerPadding ELSE 0)

C10_Witness ==
    /\ ly.op = "Layout" /\ Len(ly.before) = 4 /\ ~ly.panic
    /\ ~ly.before[1].visible /\ ~ly.before[2].visible
    /\ ly.before[3].visible /\ ~ly.before[4].visible
    /\ ly.objs[1] = ly.before[1] /\ ly.objs[2] = ly.before[2]
    /\ ly.objs[3].pos = NewPos(0, 0) /\ ly.objs[4].pos.y = 0
    /\ ly.objs[4] # ly.before[4]

\* The geometry of C13, computed from the minimum sizes of the objects and
\* not from the cell table. Rows are numbered from 0 in the list; row r is
\* the pair objects[2r], objects[2r+1], visible when one of the two is.
RowsOf(objects) == 0..(Len(objects) \div 2 - 1)
RowVisible(objects, r) ==
    At(objects, 2 * r).visible \/ At(objects, 2 * r + 1).visible
VisibleRows(objects) == {r \in RowsOf(objects) : RowVisible(objects, r)}

MaxOf(S) == IF S = {} THEN 0 ELSE CHOOSE x \in S : \A y \in S : y <= x

\* L: the largest minimum width of the labels of the visible rows.
GeoLabelWidth(objects) ==
    MaxOf({At(objects, 2 * r).min.w : r \in VisibleRows(objects)})

\* C: the largest minimum width of the contents of the visible rows, or
\* what the container of width w leaves beside the labels, if larger.
GeoContentWidth(objects, w, padding) ==
    Max(MaxOf({At(objects, 2 * r + 1).min.w : r \in VisibleRows(objects)}),
        w - GeoLabelWidth(objects) - padding)

\* h of row r.
GeoRowHeight(objects, r) ==
    Max(At(objects, 2 * r).min.h, At(objects, 2 * r + 1).min.h)

\* The sum of h over the visible rows among the rows in R.
RECURSIVE GeoHeights(_, _)
GeoHeights(objects, R) ==
    IF R = {} THEN 0
    ELSE LET r == CHOOSE x \in R : TRUE
         IN (IF RowVisible(objects, r) THEN GeoRowHeight(objects, r) ELSE 0)
                + GeoHeights(objects, R \ {r})

\* y of the visible row r: the heights of the k visible rows above it and
\* k times the padding.
GeoRowY(objects, r, padding) ==
    LET above == {q \in VisibleRows(objects) : q < r}
    IN GeoHeights(objects, above) + Cardinality(above) * padding

\* The lists C13 speaks of: even length, no *canvas.Text.
GeoList(objects) ==
    /\ Len(objects) % 2 = 0
    /\ \A i \in 1..Len(objects) : ~objects[i].text

\* Layout has placed every visible row as C13 says, and no two visible rows
\* overlap vertically.
GeoLayoutPlaced ==
    LET b == ly.before
        L == GeoLabelWidth(b)
        C == GeoContentWidth(b, ly.width, ly.padding)
    IN /\ \A r \in VisibleRows(b) :
             LET y == GeoRowY(b, r, ly.padding)
                 h == GeoRowHeight(b, r)
             IN /\ At(ly.objs, 2 * r).pos = NewPos(0, y)
                /\ At(ly.objs, 2 * r).size = NewSize(L, h)
                /\ At(ly.objs, 2 * r + 1).pos = NewPos(L + ly.padding, y)
                /\ At(ly.objs, 2 * r + 1).size = NewSize(C, h)
       /\ \A r, q \in VisibleRows(b) :
             r < q => At(ly.objs, 2 * r).pos.y + At(ly.objs, 2 * r).size.h
                         <= At(ly.objs, 2 * q).pos.y

\* (L0 + C0 + padding, sum of all h_k + padding*(rows-1)).
GeoMinSize(objects, padding) ==
    NewSize(GeoLabelWidth(objects) + GeoContentWidth(objects, 0, padding) + padding,
            GeoHeights(objects, VisibleRows(objects))
                + padding * (Cardinality(VisibleRows(objects)) - 1))

\* C13 as claimed: for every even-length list of non-text objects and every
\* container width, Layout places the k-th visible row at y = h_0 + ... +
\* h_(k-1) + k*padding, the label at x = 0 with size (L, h_k), the content at
\* x = L + padding with size (C, h_k), rows do not overlap vertically, and
\* MinSize is (L0 + C0 + padding, sum of all h_k + padding*(rows-1)).
C13_GeometryAsClaimed ==
    (ly.op # "none" /\ GeoList(ly.before)) =>
        /\ ~ly.panic
        /\ ly.op = "Layout" => GeoLayoutPlaced
        /\ ly.op = "MinSize" => ly.res = GeoMinSize(ly.before, ly.padding)

\* C13 amended: as claimed, L and the content widths being taken over the
\* visible rows, and with the MinSize formula for lists with at least one
\* visible row; MinSize is (0, 0) when no row is visible.
C13_Geometry ==
    (ly.op # "none" /\ GeoList(ly.before)) =>
        /\ ~ly.panic
        /\ ly.op = "Layout" => GeoLayoutPlaced
        /\ ly.op = "MinSize" =>
              ly.res = (IF VisibleRows(ly.before) = {} THEN NewSize(0, 0)
                        ELSE GeoMinSize(ly.before, ly.padding))

\* Layout has placed two visible rows in a container wider than the
\* minimum, the second row below the first and the padding.
C13_Witness ==
    /\ ly.op = "Layout" /\ ly.width = 40 /\ ly.padding = 4
    /\ Len(ly.before) = 4 /\ GeoList(ly.before)
    /\ VisibleRows(ly.before) = {0, 1}
    /\ ly.before[1].min = NewSize(7, 10) /\ ly.before[2].min = NewSize(3, 20)
    /\ ly.before[3].min = NewSize(9, 30) /\ ly.before[4].min = NewSize(2, 5)
    /\ ly.objs[3].pos = NewPos(0, 24) /\ ly.objs[3].size = NewSize(9, 30)
    /\ ly.objs[4].pos = NewPos(13, 24) /\ ly.objs[4].size = NewSize(27, 30)

====
